---- MODULE Spec2Model ----
(***************************************************************************)
(* Node streaming core of bevy_terrain (src/systems.rs): the three systems *)
(* traverse_quadtree, update_nodes and update_load_status, acting on the   *)
(* per-terrain components TreeUpdate, Nodes, NodeAtlas and QuadtreeUpdate. *)
(*                                                                         *)
(* The collaborators whose code lives in other modules of the crate        *)
(* (Quadtree::traverse, NodeData::load, NodeAtlas::add_node/remove_node,   *)
(* the inactive-node cache) are modelled from their description in the     *)
(* specification document.                                                 *)
(***************************************************************************)
EXTENDS Integers, Sequences, FiniteSets, TLC

\* ------------------------------------------------------------------ bounds
\* Node ids of one terrain: 1..MaxNodes.
MaxNodes == 2
\* Number of slots of a NodeAtlas (its capacity C).
AtlasSize == 1
\* Number of slots of the largest NodeAtlas of SpecAtlas.
MaxAtlasSize == 2
\* Asset handles NodeData::load registers for one node.
AssetsPerNode == 2
\* Asset events one call of update_load_status reads from its EventReader.
MaxEvents == 1
\* Capacity of the LruCache inactive_nodes.
CacheSize == 1
\* Cameras of the world: traverse_quadtree traverses every terrain once for
\* each of them.
MaxCameras == 2

\* ------------------------------------------------------------ state
VARIABLES
    terrains,      \* the terrain entities of the world (fixed after start-up)
    quadtree,      \* quadtree[t]: the visible-node set retained by the Quadtree
    tree_update,   \* tree_update[t]: the TreeUpdate component
    nodes,         \* nodes[t]: the Nodes component
    node_atlas,    \* node_atlas[t]: the NodeAtlas component
    node_updates,  \* node_updates[t]: the QuadtreeUpdate command queue
    panicked,      \* TRUE once a system has panicked (the process is gone)
    phase,         \* position in the frame schedule
    last           \* what the last system call did (observation only)

vars == <<terrains, quadtree, tree_update, nodes, node_atlas, node_updates,
          panicked, phase, last>>

\* The terrain entities a world may hold.
TerrainIds == {1, 2}
\* The node ids of a quadtree.
NodeIds == 1..MaxNodes
\* The node ids of the quadtrees of a world of the terrains T: the quadtree
\* of a world of one terrain has MaxNodes nodes, those of a world of several
\* terrains have one node less each.
QuadtreeNodes(T) == IF Cardinality(T) = 1 THEN NodeIds ELSE 1..(MaxNodes - 1)
Slots == 0..(AtlasSize - 1)
\* Atlas index of a node that holds no slot.
INACTIVE_ID == 65535

\* ------------------------------------------------------------ maps
EmptyMap == << >>
Keys(m) == DOMAIN m
Put(m, k, v) == [x \in (DOMAIN m) \cup {k} |-> IF x = k THEN v ELSE m[x]]
Remove(m, k) == [x \in (DOMAIN m) \ {k} |-> m[x]]

Min(S) == CHOOSE x \in S : \A y \in S : x <= y

RECURSIVE SortedSeq(_)
\* The elements of a set of numbers in ascending order.
SortedSeq(S) == IF S = {} THEN << >>
                ELSE <<Min(S)>> \o SortedSeq(S \ {Min(S)})

SeqSet(s) == {s[i] : i \in 1..Len(s)}

\* The orders in which an iteration over a HashMap of node ids can visit its
\* keys: the order is unspecified, any one may occur.
VisitOrders == {ord \in [1..MaxNodes -> NodeIds] :
                   \A i, j \in 1..MaxNodes : i # j => ord[i] # ord[j]}
\* The keys ids as an iteration of order ord visits them.
Visited(ord, ids) == SelectSeq(ord, LAMBDA id : id \in ids)

\* ------------------------------------------------------------ LruCache
\* inactive_nodes is an LruCache of NodeData keyed by node id, here the
\* sequence of its nodes from the least to the most recently used.
EmptyCache == << >>
LruKeys(c) == {c[i].id : i \in 1..Len(c)}
LruGet(c, id) == CHOOSE node \in SeqSet(c) : node.id = id
\* LruCache::pop: the entry of the key is removed.
LruPop(c, id) == SelectSeq(c, LAMBDA node : node.id # id)
\* LruCache::put: the entry becomes the most recently used; a full cache
\* drops its least recently used entry for a new key.
LruPut(c, id, node) ==
    LET others == LruPop(c, id)
        kept == IF Len(others) >= CacheSize THEN Tail(others) ELSE others
    IN Append(kept, node)

\* ------------------------------------------------------------ handles
\* The handle of asset k of node id of terrain t (handles are globally unique).
HandleOf(t, id, k) == <<t, id, k>>
\* A handle no terrain ever registers (an image loaded by someone else).
ForeignHandle == <<0, 0, 0>>
NodeHandles(t, id) == {HandleOf(t, id, k) : k \in 1..AssetsPerNode}
Handles(T) == UNION {NodeHandles(t, id) : t \in T, id \in NodeIds}
                 \cup {ForeignHandle}
\* The handles the asset server reports to the world of the terrains T.
LoadableHandles(T) ==
    UNION {NodeHandles(t, id) : t \in T, id \in QuadtreeNodes(T)}
        \cup {ForeignHandle}

\* ------------------------------------------------------------ components
NewNodeData(id) == [id |-> id, atlas_index |-> INACTIVE_ID]

EmptyTreeUpdate == [nodes_to_activate |-> << >>,
                    nodes_to_deactivate |-> << >>,
                    activated_nodes |-> {}]

EmptyNodes == [handle_mapping |-> EmptyMap,
               load_statuses |-> EmptyMap,
               loading_nodes |-> EmptyMap,
               inactive_nodes |-> EmptyCache,
               active_nodes |-> EmptyMap]

\* NodeAtlas::new: an atlas of size slots, all of them free.
NodeAtlasOf(size) == [size |-> size, available_ids |-> SortedSeq(0..(size - 1))]
NewNodeAtlas == NodeAtlasOf(AtlasSize)

\* Observation of a system call: which system ran, the <<terrain, id>> pairs
\* it requested a load for (loads) and served from the cache (hits), the
\* loads it requested for ids it found in loading_nodes (reloads), the
\* number of Created events whose handle it found registered (routed) and
\* unregistered (ignored), and whether one of the latter is a handle of a
\* node whose load is still pending in load_statuses, that is, a handle that
\* was routed before and since the last update_nodes (repeated).
\* fault names the unwrap/expect that panicked, "none" when the call returned.
Call(op, loads, hits, reloads, routed, ignored, repeated, fault) ==
    [op |-> op, loads |-> loads, hits |-> hits, reloads |-> reloads, routed |-> routed,
     ignored |-> ignored, repeated |-> repeated, fault |-> fault]
NoCall == Call("none", {}, {}, {}, 0, 0, FALSE, "none")

\* ------------------------------------------------------------ NodeAtlas
\* NodeAtlas::add_node: take a free slot for the node and queue the
\* slot-assign command.  With no free slot the call panics.
AtlasCanAdd(atlas) == atlas.available_ids # << >>
AtlasAddNode(atlas) == [atlas EXCEPT !.available_ids = Tail(@)]
AtlasAddIndex(atlas) == Head(atlas.available_ids)
AddedNode(node, index) == [node EXCEPT !.atlas_index = index]
AssignCommand(id, index) == [kind |-> "assign", node_id |-> id, atlas_index |-> index]

\* NodeAtlas::remove_node: return the node's slot and queue the slot-free
\* command.
AtlasRemoveNode(atlas, node) ==
    [atlas EXCEPT !.available_ids = <<node.atlas_index>> \o @]
RemovedNode(node) == [node EXCEPT !.atlas_index = INACTIVE_ID]
FreeCommand(node) == [kind |-> "free", node_id |-> node.id, atlas_index |-> node.atlas_index]

\* ------------------------------------------------------------ NodeData::load
\* Starts the load of node id: a new unfinished LoadStatus, and one
\* handle_mapping entry per asset of the node.
RECURSIVE RegisterHandles(_, _, _)
RegisterHandles(mapping, hs, id) ==
    IF hs = {} THEN mapping
    ELSE LET h == CHOOSE x \in hs : TRUE
         IN RegisterHandles(Put(mapping, h, id), hs \ {h}, id)

NodeDataLoad(t, id, nd) ==
    [nd EXCEPT !.load_statuses = Put(@, id, [finished |-> FALSE]),
               !.handle_mapping = RegisterHandles(@, NodeHandles(t, id), id)]

\* ------------------------------------------------------------ update_nodes
\* The state one iteration of update_nodes' terrain loop works on: the four
\* components of the terrain, the local vector nodes_to_activate (queue),
\* whether the call has panicked, and what it did (loads, hits).
TerrainState(tu, nd, atlas, upd) ==
    [tu |-> tu, nd |-> nd, atlas |-> atlas, upd |-> upd,
     queue |-> << >>, panic |-> FALSE, fault |-> "none", loads |-> {}, hits |-> {},
     reloads |-> {}]

\* ClearActivated with the set of the previous call left in place.
ClearActivatedKeeps(S) == S

\* systems.rs 48: clear the previously activated nodes.
ClearActivated(S) == [S EXCEPT !.tu.activated_nodes = {}]

\* systems.rs 53-64: one id of nodes_to_activate, from the cache or from disk.
LoadOne(t, S, id) ==
    IF id \in LruKeys(S.nd.inactive_nodes)
    THEN [S EXCEPT !.queue = Append(@, LruGet(S.nd.inactive_nodes, id)),
                   !.nd.inactive_nodes = LruPop(@, id),
                   !.hits = @ \cup {id}]
    ELSE [S EXCEPT !.nd = [NodeDataLoad(t, id, S.nd) EXCEPT
                              !.loading_nodes = Put(@, id, NewNodeData(id))],
                   !.loads = @ \cup {id},
                   !.reloads = @ \cup ({id} \cap Keys(S.nd.loading_nodes))]

RECURSIVE LoadRequiredFrom(_, _, _)
LoadRequiredFrom(t, S, ids) ==
    IF ids = << >> THEN S
    ELSE LoadRequiredFrom(t, LoadOne(t, S, Head(ids)), Tail(ids))

\* LoadRequired iterating over the request list without taking it.
LoadRequiredKeeps(t, S) == LoadRequiredFrom(t, S, S.tu.nodes_to_activate)

\* mem::take(&mut tree_update.nodes_to_activate) and the loop over it.
LoadRequired(t, S) ==
    LoadRequiredFrom(t, [S EXCEPT !.tu.nodes_to_activate = << >>],
                     S.tu.nodes_to_activate)

\* QueueOne with the finished LoadStatus kept by the retain.
QueueOneKeepsStatus(S, id) ==
    IF id \notin Keys(S.nd.loading_nodes)
    THEN [S EXCEPT !.panic = TRUE, !.fault = "loading_nodes"]
    ELSE [S EXCEPT !.queue = Append(@, S.nd.loading_nodes[id]),
                   !.nd.loading_nodes = Remove(@, id)]

\* systems.rs 67-73: one finished entry of load_statuses.
QueueOne(S, id) ==
    IF id \notin Keys(S.nd.loading_nodes)
    THEN [S EXCEPT !.panic = TRUE, !.fault = "loading_nodes"]
    ELSE [S EXCEPT !.queue = Append(@, S.nd.loading_nodes[id]),
                   !.nd.loading_nodes = Remove(@, id),
                   !.nd.load_statuses = Remove(@, id)]

RECURSIVE QueueFinishedFrom(_, _)
QueueFinishedFrom(S, ids) ==
    IF ids = << >> \/ S.panic THEN S
    ELSE QueueFinishedFrom(QueueOne(S, Head(ids)), Tail(ids))

\* FinishedIds of a retain that keeps every entry.
FinishedIdsNone(nd) == {id \in Keys(nd.load_statuses) : FALSE}

\* FinishedIds without the test of status.finished.
FinishedIdsAll(nd) == Keys(nd.load_statuses)

\* systems.rs 68: the entries of load_statuses whose status is finished.
FinishedIds(nd) == {id \in Keys(nd.load_statuses) : nd.load_statuses[id].finished}

\* systems.rs 67-73: HashMap::retain visits the entries in the order ord.
QueueFinished(S, ord) == QueueFinishedFrom(S, Visited(ord, FinishedIds(S.nd)))

\* DeactivateOne with the node read from active_nodes but not removed.
DeactivateOneKeepsActive(S, id) ==
    IF id \notin Keys(S.nd.active_nodes)
    THEN [S EXCEPT !.panic = TRUE, !.fault = "active_nodes"]
    ELSE LET node == S.nd.active_nodes[id]
         IN [S EXCEPT !.atlas = AtlasRemoveNode(@, node),
                      !.upd = Append(@, FreeCommand(node)),
                      !.nd.inactive_nodes = LruPut(@, id, RemovedNode(node))]

\* DeactivateOne without the call of node_atlas.remove_node.
DeactivateOneKeepsSlot(S, id) ==
    IF id \notin Keys(S.nd.active_nodes)
    THEN [S EXCEPT !.panic = TRUE, !.fault = "active_nodes"]
    ELSE LET node == S.nd.active_nodes[id]
         IN [S EXCEPT !.nd.active_nodes = Remove(@, id),
                      !.nd.inactive_nodes = LruPut(@, id, node)]

\* DeactivateOne skipping an id that is not active (if let Some for unwrap).
DeactivateOneSkips(S, id) ==
    IF id \notin Keys(S.nd.active_nodes)
    THEN S
    ELSE LET node == S.nd.active_nodes[id]
         IN [S EXCEPT !.nd.active_nodes = Remove(@, id),
                      !.atlas = AtlasRemoveNode(@, node),
                      !.upd = Append(@, FreeCommand(node)),
                      !.nd.inactive_nodes = LruPut(@, id, RemovedNode(node))]

\* systems.rs 76-80: one id of nodes_to_deactivate.
DeactivateOne(S, id) ==
    IF id \notin Keys(S.nd.active_nodes)
    THEN [S EXCEPT !.panic = TRUE, !.fault = "active_nodes"]
    ELSE LET node == S.nd.active_nodes[id]
         IN [S EXCEPT !.nd.active_nodes = Remove(@, id),
                      !.atlas = AtlasRemoveNode(@, node),
                      !.upd = Append(@, FreeCommand(node)),
                      !.nd.inactive_nodes = LruPut(@, id, RemovedNode(node))]

RECURSIVE DeactivateFrom(_, _)
DeactivateFrom(S, ids) ==
    IF ids = << >> \/ S.panic THEN S
    ELSE DeactivateFrom(DeactivateOne(S, Head(ids)), Tail(ids))

Deactivate(S) ==
    IF S.panic THEN S
    ELSE DeactivateFrom([S EXCEPT !.tu.nodes_to_deactivate = << >>],
                        S.tu.nodes_to_deactivate)

\* systems.rs 83-87: one node of the local vector nodes_to_activate.
ActivateOne(S, node) ==
    IF ~AtlasCanAdd(S.atlas)
    THEN [S EXCEPT !.panic = TRUE, !.fault = "node_atlas"]
    ELSE LET index == AtlasAddIndex(S.atlas)
         IN [S EXCEPT !.atlas = AtlasAddNode(@),
                      !.upd = Append(@, AssignCommand(node.id, index)),
                      !.tu.activated_nodes = @ \cup {node.id},
                      !.nd.active_nodes = Put(@, node.id, AddedNode(node, index))]

RECURSIVE ActivateFrom(_, _)
ActivateFrom(S, queue) ==
    IF queue = << >> \/ S.panic THEN S
    ELSE ActivateFrom(ActivateOne(S, Head(queue)), Tail(queue))

Activate(S) == IF S.panic THEN S ELSE ActivateFrom(S, S.queue)

\* UpdateTerrain with the activation loop run before the deactivation loop.
UpdateTerrainActivateFirst(t, S, ord) ==
    LET queued == QueueFinished(LoadRequired(t, ClearActivated(S)), ord)
    IN Deactivate(Activate(queued))

\* systems.rs 38-88: the body of the terrain loop.
UpdateTerrain(t, S, ord) ==
    Activate(Deactivate(QueueFinished(LoadRequired(t, ClearActivated(S)), ord)))

\* The components of the world that the systems change.
World(tu, nd, atlas, upd) ==
    [tree_update |-> tu, nodes |-> nd, node_atlas |-> atlas, node_updates |-> upd,
     panic |-> FALSE, fault |-> "none", loads |-> {}, hits |-> {}, reloads |-> {},
     routed |-> 0,
     ignored |-> 0, repeated |-> FALSE]

\* systems.rs 38: the loop of update_nodes over the terrains of the query.
RECURSIVE UpdateNodesFrom(_, _, _)
UpdateNodesFrom(W, ts, ords) ==
    IF ts = << >> \/ W.panic THEN W
    ELSE LET t == Head(ts)
             S == UpdateTerrain(t, TerrainState(W.tree_update[t], W.nodes[t],
                                                W.node_atlas[t], W.node_updates[t]),
                                ords[t])
         IN UpdateNodesFrom(
                [W EXCEPT !.tree_update[t] = S.tu,
                          !.nodes[t] = S.nd,
                          !.node_atlas[t] = S.atlas,
                          !.node_updates[t] = S.upd,
                          !.panic = S.panic,
                          !.fault = S.fault,
                          !.loads = @ \cup {<<t, id>> : id \in S.loads},
                          !.hits = @ \cup {<<t, id>> : id \in S.hits},
                          !.reloads = @ \cup {<<t, id>> : id \in S.reloads}],
                Tail(ts), ords)

\* ords[t] is the order in which the sweep of terrain t visits load_statuses.
update_nodes(W, T, ords) == UpdateNodesFrom(W, SortedSeq(T), ords)

\* ------------------------------------------------------------ update_load_status
\* An asset event: Created carries the handle of a loaded image; every other
\* kind of event is skipped by the system.
Created(h) == [kind |-> "Created", handle |-> h]
OtherEvent == [kind |-> "Modified", handle |-> ForeignHandle]
Events(T) == {Created(h) : h \in LoadableHandles(T)} \cup {OtherEvent}

\* h is a handle of a node of some terrain that has a LoadStatus.
PendingHandle(W, h) ==
    \E t \in DOMAIN W.nodes : \E id \in Keys(W.nodes[t].load_statuses) :
        h \in NodeHandles(t, id)

\* RouteHandle panicking on a handle that no terrain has registered.
RECURSIVE RouteHandleUnwrap(_, _, _)
RouteHandleUnwrap(W, h, ts) ==
    IF ts = << >>
    THEN [W EXCEPT !.panic = TRUE, !.fault = "handle_mapping"]
    ELSE LET t == Head(ts)
             nd == W.nodes[t]
         IN IF h \in Keys(nd.handle_mapping)
            THEN LET id == nd.handle_mapping[h]
                     removed == [W EXCEPT !.nodes[t].handle_mapping = Remove(@, h),
                                          !.routed = @ + 1]
                 IN IF id \notin Keys(nd.load_statuses)
                    THEN [removed EXCEPT !.panic = TRUE, !.fault = "load_statuses"]
                    ELSE [removed EXCEPT !.nodes[t].load_statuses[id].finished = TRUE]
            ELSE RouteHandleUnwrap(W, h, Tail(ts))

\* RouteHandle reading the mapping without removing it, and flipping the
\* finished flag instead of setting it.
RECURSIVE RouteHandleFlip(_, _, _)
RouteHandleFlip(W, h, ts) ==
    IF ts = << >>
    THEN [W EXCEPT !.ignored = @ + 1,
                   !.repeated = @ \/ PendingHandle(W, h)]
    ELSE LET t == Head(ts)
             nd == W.nodes[t]
         IN IF h \in Keys(nd.handle_mapping)
            THEN LET id == nd.handle_mapping[h]
                     found == [W EXCEPT !.routed = @ + 1]
                 IN IF id \notin Keys(nd.load_statuses)
                    THEN [found EXCEPT !.panic = TRUE, !.fault = "load_statuses"]
                    ELSE [found EXCEPT !.nodes[t].load_statuses[id].finished = ~@]
            ELSE RouteHandleFlip(W, h, Tail(ts))

\* RouteHandle marking the node finished only once none of its handles is
\* registered any more.
RECURSIVE RouteHandleAll(_, _, _)
RouteHandleAll(W, h, ts) ==
    IF ts = << >>
    THEN [W EXCEPT !.ignored = @ + 1,
                   !.repeated = @ \/ PendingHandle(W, h)]
    ELSE LET t == Head(ts)
             nd == W.nodes[t]
         IN IF h \in Keys(nd.handle_mapping)
            THEN LET id == nd.handle_mapping[h]
                     removed == [W EXCEPT !.nodes[t].handle_mapping = Remove(@, h),
                                          !.routed = @ + 1]
                     rest == {g \in Keys(nd.handle_mapping) \ {h} : nd.handle_mapping[g] = id}
                 IN IF id \notin Keys(nd.load_statuses)
                    THEN [removed EXCEPT !.panic = TRUE, !.fault = "load_statuses"]
                    ELSE [removed EXCEPT !.nodes[t].load_statuses[id].finished = (rest = {})]
            ELSE RouteHandleAll(W, h, Tail(ts))

\* RouteHandle marking the node id of the handle finished in every terrain
\* that has a LoadStatus for that id, not only in the terrain of the handle.
RECURSIVE RouteHandleEveryTerrain(_, _, _)
RouteHandleEveryTerrain(W, h, ts) ==
    IF ts = << >>
    THEN [W EXCEPT !.ignored = @ + 1,
                   !.repeated = @ \/ PendingHandle(W, h)]
    ELSE LET t == Head(ts)
             nd == W.nodes[t]
         IN IF h \in Keys(nd.handle_mapping)
            THEN LET id == nd.handle_mapping[h]
                     removed == [W EXCEPT !.nodes[t].handle_mapping = Remove(@, h),
                                          !.routed = @ + 1]
                 IN IF id \notin Keys(nd.load_statuses)
                    THEN [removed EXCEPT !.panic = TRUE, !.fault = "load_statuses"]
                    ELSE [removed EXCEPT !.nodes =
                             [u \in DOMAIN @ |->
                                 IF id \in Keys(@[u].load_statuses)
                                 THEN [@[u] EXCEPT !.load_statuses[id].finished = TRUE]
                                 ELSE @[u]]]
            ELSE RouteHandleEveryTerrain(W, h, Tail(ts))

\* systems.rs 98-104: the terrains are searched in order for the handle.
RECURSIVE RouteHandle(_, _, _)
RouteHandle(W, h, ts) ==
    IF ts = << >>
    THEN [W EXCEPT !.ignored = @ + 1,
                   !.repeated = @ \/ PendingHandle(W, h)]
    ELSE LET t == Head(ts)
             nd == W.nodes[t]
         IN IF h \in Keys(nd.handle_mapping)
            THEN LET id == nd.handle_mapping[h]
                     removed == [W EXCEPT !.nodes[t].handle_mapping = Remove(@, h),
                                          !.routed = @ + 1]
                 IN IF id \notin Keys(nd.load_statuses)
                    THEN [removed EXCEPT !.panic = TRUE, !.fault = "load_statuses"]
                    ELSE [removed EXCEPT !.nodes[t].load_statuses[id].finished = TRUE]
            ELSE RouteHandle(W, h, Tail(ts))

\* systems.rs 96-97: one event of the reader.
RouteEvent(W, e, T) ==
    IF e.kind = "Created" THEN RouteHandle(W, e.handle, SortedSeq(T)) ELSE W

RECURSIVE update_load_status(_, _, _)
update_load_status(W, events, T) ==
    IF events = << >> \/ W.panic THEN W
    ELSE update_load_status(RouteEvent(W, Head(events), T), Tail(events), T)

\* ------------------------------------------------------------ Quadtree::traverse
\* The quadtree retains the visible set of the previous traversal; a
\* traversal with visible set D appends D minus retained to nodes_to_activate
\* and retained minus D to nodes_to_deactivate, and retains D.
QuadtreeTraverse(retained, tu, D) ==
    [tu EXCEPT !.nodes_to_activate = @ \o SortedSeq(D \ retained),
               !.nodes_to_deactivate = @ \o SortedSeq(retained \ D)]

\* systems.rs 16-23: the loop over the cameras for one terrain; views is the
\* sequence of the visible sets of the cameras, in query order.  Every call
\* of traverse is given the Quadtree and the TreeUpdate the call before it
\* left, and nothing tells it which camera of the frame it serves: it diffs
\* against the set the previous call retained.  The result is the retained
\* set and the TreeUpdate after the last traversal.
RECURSIVE TraverseViews(_, _, _)
TraverseViews(retained, tu, views) ==
    IF views = << >> THEN [quadtree |-> retained, tree_update |-> tu]
    ELSE TraverseViews(Head(views), QuadtreeTraverse(retained, tu, Head(views)),
                       Tail(views))

\* The numbers of cameras a frame can have.
CameraCounts == 1..MaxCameras

\* ------------------------------------------------------------ specification
InitWorld(T) ==
    /\ terrains = T
    /\ quadtree = [t \in T |-> {}]
    /\ tree_update = [t \in T |-> EmptyTreeUpdate]
    /\ nodes = [t \in T |-> EmptyNodes]
    /\ node_atlas = [t \in T |-> NewNodeAtlas]
    /\ node_updates = [t \in T |-> << >>]
    /\ panicked = FALSE
    /\ phase = "traverse"
    /\ last = NoCall

\* A world with one terrain.
Init == InitWorld({1})

CurrentWorld == World(tree_update, nodes, node_atlas, node_updates)

\* systems.rs 11-25: traverse_quadtree, every terrain traversed for every
\* camera; views[t] are the sets the cameras see of terrain t.
TraverseQuadtree ==
    /\ ~panicked
    /\ phase = "traverse"
    /\ \E n \in CameraCounts :
       \E views \in [terrains -> [1..n -> SUBSET QuadtreeNodes(terrains)]] :
          LET R == [t \in terrains |->
                       TraverseViews(quadtree[t], tree_update[t], views[t])]
          IN /\ tree_update' = [t \in terrains |-> R[t].tree_update]
             /\ quadtree' = [t \in terrains |-> R[t].quadtree]
    /\ phase' = "update_nodes"
    /\ last' = Call("traverse_quadtree", {}, {}, {}, 0, 0, FALSE, "none")
    /\ UNCHANGED <<terrains, nodes, node_atlas, node_updates, panicked>>

\* systems.rs 16: a frame without a camera; no quadtree is traversed.
TraverseNoViewer ==
    /\ ~panicked
    /\ phase = "traverse"
    /\ phase' = "update_nodes"
    /\ last' = Call("traverse_quadtree", {}, {}, {}, 0, 0, FALSE, "none")
    /\ UNCHANGED <<terrains, quadtree, tree_update, nodes, node_atlas,
                   node_updates, panicked>>

\* systems.rs 29-89.
UpdateNodes ==
    /\ ~panicked
    /\ phase = "update_nodes"
    /\ \E ords \in [terrains -> VisitOrders] :
       LET W == update_nodes(CurrentWorld, terrains, ords)
       IN /\ tree_update' = W.tree_update
          /\ nodes' = W.nodes
          /\ node_atlas' = W.node_atlas
          /\ node_updates' = W.node_updates
          /\ panicked' = W.panic
          /\ last' = Call("update_nodes", W.loads, W.hits, W.reloads, 0, 0, FALSE, W.fault)
    /\ phase' = "render"
    /\ UNCHANGED <<terrains, quadtree>>

\* systems.rs 92-107, reading up to MaxEvents events.
EventBatches(T) == UNION {[1..n -> Events(T)] : n \in 0..MaxEvents}

UpdateLoadStatus ==
    /\ ~panicked
    /\ \E events \in EventBatches(terrains) :
          LET W == update_load_status(CurrentWorld, events, terrains)
          IN /\ nodes' = W.nodes
             /\ panicked' = W.panic
             /\ last' = Call("update_load_status", {}, {}, {}, W.routed, W.ignored, W.repeated, W.fault)
    /\ UNCHANGED <<terrains, quadtree, tree_update, node_atlas, node_updates, phase>>

\* The rendering backend consumes the QuadtreeUpdate queue and clears it.
ConsumeUpdates ==
    /\ ~panicked
    /\ phase = "render"
    /\ node_updates' = [t \in terrains |-> << >>]
    /\ phase' = "traverse"
    /\ last' = Call("render", {}, {}, {}, 0, 0, FALSE, "none")
    /\ UNCHANGED <<terrains, quadtree, tree_update, nodes, node_atlas, panicked>>

Next ==
    \/ TraverseQuadtree
    \/ TraverseNoViewer
    \/ UpdateNodes
    \/ UpdateLoadStatus
    \/ ConsumeUpdates

Spec == Init /\ [][Next]_vars

\* The schedule runs the systems of a frame every frame: a system whose turn
\* it is runs eventually. Notifications come from the asset server, with no
\* promise of delivery.
\* The frame passes from the system of stage from to that of stage to.
SystemRuns(from, to) == ~panicked /\ phase = from /\ phase' = to

FairSpec ==
    /\ Spec
    /\ WF_phase(SystemRuns("traverse", "update_nodes"))
    /\ WF_phase(SystemRuns("update_nodes", "render"))
    /\ WF_phase(SystemRuns("render", "traverse"))

\* A world with one terrain whose atlas has one to MaxAtlasSize slots.
InitAtlas ==
    /\ terrains = {1}
    /\ quadtree = [t \in {1} |-> {}]
    /\ tree_update = [t \in {1} |-> EmptyTreeUpdate]
    /\ nodes = [t \in {1} |-> EmptyNodes]
    /\ \E size \in 1..MaxAtlasSize : node_atlas = [t \in {1} |-> NodeAtlasOf(size)]
    /\ node_updates = [t \in {1} |-> << >>]
    /\ panicked = FALSE
    /\ phase = "traverse"
    /\ last = NoCall

SpecAtlas == InitAtlas /\ [][Next]_vars

\* A world of several terrains, each with its own components.
InitTerrains == InitWorld(TerrainIds)

SpecTerrains == InitTerrains /\ [][Next]_vars

\* ------------------------------------------------------------ scenario harness
\* update_nodes driven as in the scenarios of the specification document:
\* the activation and deactivation requests of a frame are written into the
\* TreeUpdate directly, any two sets of node ids.
RequestNodes ==
    /\ ~panicked
    /\ phase = "traverse"
    /\ \E A \in [terrains -> SUBSET NodeIds], D \in [terrains -> SUBSET NodeIds] :
          tree_update' = [t \in terrains |->
              [tree_update[t] EXCEPT !.nodes_to_activate = @ \o SortedSeq(A[t]),
                                     !.nodes_to_deactivate = @ \o SortedSeq(D[t])]]
    /\ phase' = "update_nodes"
    /\ last' = Call("request", {}, {}, {}, 0, 0, FALSE, "none")
    /\ UNCHANGED <<terrains, quadtree, nodes, node_atlas, node_updates, panicked>>

ScenarioNext ==
    \/ RequestNodes
    \/ UpdateNodes
    \/ UpdateLoadStatus
    \/ ConsumeUpdates

SpecScenario == Init /\ [][ScenarioNext]_vars

\* ------------------------------------------------------------ properties
Loading(t) == Keys(nodes[t].loading_nodes)
Inactive(t) == LruKeys(nodes[t].inactive_nodes)
Active(t) == Keys(nodes[t].active_nodes)
Tracked(t) == Loading(t) \cup Inactive(t) \cup Active(t)
ToActivate(t) == SeqSet(tree_update[t].nodes_to_activate)
ToDeactivate(t) == SeqSet(tree_update[t].nodes_to_deactivate)
\* This step is a call of update_nodes.
UpdateNodesStep == last'.op = "update_nodes" /\ phase = "update_nodes"

C2_Capacity ==
    \A t \in terrains : Cardinality(Active(t)) <= AtlasSize

\* C2 witness: a call of update_nodes that queued more nodes than the atlas
\* had free slots; it filled the atlas and stopped at the first node without
\* a slot.
C2_Witness ==
    /\ last.op = "update_nodes"
    /\ last.fault = "node_atlas"
    /\ \E t \in terrains :
          /\ Cardinality(Active(t)) = AtlasSize
          /\ node_atlas[t].available_ids = << >>

\* The slots of an atlas.
SlotsOf(atlas) == 0..(atlas.size - 1)

\* C3: every active node holds a slot of the atlas that is allocated (not in
\* the free list), no two active nodes hold the same slot, and no loading or
\* inactive node holds a slot.
C3_SlotValidity ==
    \A t \in terrains :
        LET nd == nodes[t]
            free == SeqSet(node_atlas[t].available_ids)
        IN /\ \A id \in Active(t) :
                 /\ nd.active_nodes[id].atlas_index \in SlotsOf(node_atlas[t])
                 /\ nd.active_nodes[id].atlas_index \notin free
           /\ \A a, b \in Active(t) :
                 a # b => nd.active_nodes[a].atlas_index # nd.active_nodes[b].atlas_index
           /\ \A id \in Loading(t) : nd.loading_nodes[id].atlas_index = INACTIVE_ID
           /\ \A i \in 1..Len(nd.inactive_nodes) :
                 nd.inactive_nodes[i].atlas_index = INACTIVE_ID

\* C3 witness: update_nodes has returned with two nodes active at once in
\* different slots and the atlas full; one of them came from the cache in
\* this call, so its former slot was returned when it was deactivated and
\* it took a slot anew.
C3_Witness ==
    /\ last.op = "update_nodes"
    /\ ~panicked
    /\ \E t \in terrains : \E a, b \in Active(t) :
          /\ a # b
          /\ nodes[t].active_nodes[a].atlas_index # nodes[t].active_nodes[b].atlas_index
          /\ <<t, b>> \in last.hits
          /\ \E i \in DOMAIN node_updates[t] :
                 node_updates[t][i] =
                     AssignCommand(b, nodes[t].active_nodes[b].atlas_index)
          /\ node_atlas[t].available_ids = << >>

\* A requested id that is not cached is in loading_nodes, and not active,
\* right after the call, when the call has returned.
C4_RequestedIsLoading ==
    (UpdateNodesStep /\ ~panicked') =>
        \A t \in terrains : \A id \in ToActivate(t) \ Inactive(t) :
            /\ id \in Keys(nodes'[t].loading_nodes)
            /\ id \notin Keys(nodes'[t].active_nodes)
            /\ id \in Keys(nodes'[t].load_statuses)

\* A loading node becomes active only in a call of update_nodes that found
\* its LoadStatus finished, did not request its load itself, and gave it a
\* slot of the atlas.
C4_ActivatedWhenFinished ==
    \A t \in terrains : \A id \in Loading(t) :
        (id \notin Active(t) /\ id \in Keys(nodes'[t].active_nodes)) =>
            /\ UpdateNodesStep
            /\ id \in Keys(nodes[t].load_statuses)
            /\ nodes[t].load_statuses[id].finished
            /\ <<t, id>> \notin last'.loads
            /\ nodes'[t].active_nodes[id].atlas_index \in Slots

\* While the systems run (no call has panicked), no active node has an
\* unfinished LoadStatus.
C4_NoUnfinishedActive ==
    ~panicked =>
        \A t \in terrains : \A id \in Active(t) :
            id \in Keys(nodes[t].load_statuses) => nodes[t].load_statuses[id].finished

\* C4: a requested node id that is not in inactive_nodes is in loading_nodes
\* right after the call of update_nodes, once that call has returned; it
\* becomes active only in a later call of update_nodes, one that runs after
\* its LoadStatus was marked finished and gives it a free slot; in no state
\* between two system calls is it active with an unfinished LoadStatus.
C4_LoadThenActivate ==
    /\ [][C4_RequestedIsLoading /\ C4_ActivatedWhenFinished]_vars
    /\ []C4_NoUnfinishedActive

\* C4 witness: update_nodes has returned after it activated a node that
\* came from loading_nodes, not from the cache.
C4_Witness ==
    /\ last.op = "update_nodes"
    /\ ~panicked
    /\ \E t \in terrains : \E id \in tree_update[t].activated_nodes :
          /\ <<t, id>> \notin last.hits
          /\ id \in Active(t)

\* C5: a node id that is in inactive_nodes and in nodes_to_activate is, by
\* that call of update_nodes, removed from inactive_nodes and activated,
\* without a load request (no loading_nodes entry, no LoadStatus).  Calls
\* that end in the fatal deactivation error are left aside.
C5_CacheReuse ==
    [][(UpdateNodesStep /\ last'.fault # "active_nodes") =>
          \A t \in terrains : \A id \in ToActivate(t) \cap Inactive(t) :
              /\ id \notin LruKeys(nodes'[t].inactive_nodes)
              /\ id \in Keys(nodes'[t].active_nodes)
              /\ id \notin Keys(nodes'[t].loading_nodes)
              /\ id \notin Keys(nodes'[t].load_statuses)
              /\ <<t, id>> \notin last'.loads]_vars

\* C6: an active node id listed in nodes_to_deactivate and in
\* nodes_to_activate of the same tree update is, after the call, in
\* active_nodes and not in loading_nodes, and no load was requested for it.
C6_SameFrameReactivation ==
    [][(UpdateNodesStep /\ ~panicked') =>
          \A t \in terrains : \A id \in (ToActivate(t) \cap ToDeactivate(t)) \cap Active(t) :
              /\ id \in Keys(nodes'[t].active_nodes)
              /\ id \notin Keys(nodes'[t].loading_nodes)
              /\ <<t, id>> \notin last'.loads]_vars

\* The nodes a call of update_nodes queues for activation: the requested
\* ids found in the cache and the loads found finished.
QueuedBy(t) == (ToActivate(t) \cap Inactive(t)) \cup FinishedIds(nodes[t])
\* The slots free for them: the free list and the slots of the deactivated.
FreeFor(t) == Len(node_atlas[t].available_ids) + Cardinality(ToDeactivate(t))

\* C7: a call of update_nodes that queues more nodes than the atlas has free
\* slots (every deactivation of the call being one of an active node) does
\* not abort, and every node it queued is still in one of the collections.
C7_CapacityPolicy ==
    [][UpdateNodesStep =>
          \A t \in terrains :
              (ToDeactivate(t) \subseteq Active(t) /\ Cardinality(QueuedBy(t)) > FreeFor(t)) =>
                  /\ ~panicked'
                  /\ QueuedBy(t) \subseteq
                         Keys(nodes'[t].loading_nodes) \cup LruKeys(nodes'[t].inactive_nodes)
                             \cup Keys(nodes'[t].active_nodes)]_vars

\* What update_load_status leaves behind: the Nodes of every terrain and
\* whether the process is still running.
Outcome(W) == [nodes |-> W.nodes, panic |-> W.panic]

\* C8: in every reachable state, delivering a notification twice (with no
\* update_nodes in between) leaves the same Nodes as delivering it once.
C8_IdempotentNotification ==
    \A h \in Handles(terrains) :
        Outcome(update_load_status(CurrentWorld, <<Created(h), Created(h)>>, terrains))
            = Outcome(update_load_status(CurrentWorld, <<Created(h)>>, terrains))

\* C8 witness: update_load_status has been given again the handle of a load
\* that an earlier delivery had already marked finished and that
\* update_nodes has not swept yet.
C8_Witness ==
    /\ last.op = "update_load_status"
    /\ last.repeated
    /\ ~panicked
    /\ \E t \in terrains : FinishedIds(nodes[t]) # {}

Registered(h) == \E t \in terrains : h \in Keys(nodes[t].handle_mapping)

\* C9: in every reachable state, a notification whose handle is in no
\* terrain's handle_mapping changes no Nodes component and does not panic.
C9_UnknownHandleIgnored ==
    \A h \in Handles(terrains) :
        ~Registered(h) =>
            Outcome(update_load_status(CurrentWorld, <<Created(h)>>, terrains))
                = [nodes |-> nodes, panic |-> FALSE]

\* C9 witness: update_load_status has read a notification for an
\* unregistered handle while a load was pending, and returned.
C9_Witness ==
    /\ last.op = "update_load_status"
    /\ last.ignored > 0
    /\ last.routed = 0
    /\ ~panicked
    /\ \E t \in terrains : \E id \in Keys(nodes[t].load_statuses) :
          ~nodes[t].load_statuses[id].finished

\* C10: a call of update_nodes whose nodes_to_deactivate holds an id that
\* is not in active_nodes panics; the id is not added to inactive_nodes and
\* no slot-free command is queued for it.
C10_DeactivateMissingIsFatal ==
    [][UpdateNodesStep =>
          \A t \in terrains : \A id \in ToDeactivate(t) \ Active(t) :
              /\ panicked'
              /\ id \in LruKeys(nodes'[t].inactive_nodes) => id \in Inactive(t)
              /\ \A i \in DOMAIN node_updates'[t] :
                    ~(node_updates'[t][i].kind = "free" /\ node_updates'[t][i].node_id = id)]_vars

\* C10 witness: update_nodes has panicked at the lookup of a node to
\* deactivate, the node being one that is still loading.
C10_Witness ==
    /\ panicked
    /\ last.op = "update_nodes"
    /\ last.fault = "active_nodes"
    /\ \E t \in terrains : Loading(t) # {}

\* The handles registered for node id of terrain t.
RegisteredFor(t, id) ==
    {h \in Keys(nodes[t].handle_mapping) : nodes[t].handle_mapping[h] = id}

\* C11: under the diff traversal no node id is queued for deactivation while
\* it is in loading_nodes, and update_nodes never panics at the lookup of a
\* node to deactivate.
C11_NoDeactivationWhileLoading ==
    /\ \A t \in terrains : ToDeactivate(t) \cap Loading(t) = {}
    /\ last.fault # "active_nodes"

\* C12: while a handle registered for a node has not been notified, the
\* node's LoadStatus is not finished and the node is not active.
C12_AllAssetsBeforeReady ==
    \A t \in terrains : \A id \in NodeIds :
        RegisteredFor(t, id) # {} =>
            /\ id \in Keys(nodes[t].load_statuses) => ~nodes[t].load_statuses[id].finished
            /\ id \notin Active(t)

\* C14: in every reachable state, a notification for a handle registered for
\* a node with a LoadStatus marks that status finished, whatever other
\* handles of the node are still registered, and removes that one mapping
\* only.
C14_FirstNotificationFinishes ==
    \A t \in terrains : \A h \in Keys(nodes[t].handle_mapping) :
        LET id == nodes[t].handle_mapping[h]
            W == update_load_status(CurrentWorld, <<Created(h)>>, terrains)
        IN (/\ id \in Keys(nodes[t].load_statuses)
            /\ \A u \in terrains : u < t => h \notin Keys(nodes[u].handle_mapping)) =>
              /\ ~W.panic
              /\ W.nodes[t].load_statuses[id].finished
              /\ W.nodes[t].handle_mapping = Remove(nodes[t].handle_mapping, h)

\* C14 witness: update_load_status has routed a notification; the node is
\* finished while another of its handles is still registered.
C14_Witness ==
    /\ last.op = "update_load_status"
    /\ last.routed > 0
    /\ ~panicked
    /\ \E t \in terrains : \E id \in FinishedIds(nodes[t]) :
          /\ RegisteredFor(t, id) # {}
          /\ RegisteredFor(t, id) # NodeHandles(t, id)

\* C17: every node id that handle_mapping maps a handle to has a LoadStatus,
\* and update_load_status never panics at the lookup of the status.
C17_MappedNodeHasStatus ==
    /\ \A t \in terrains : \A h \in Keys(nodes[t].handle_mapping) :
          nodes[t].handle_mapping[h] \in Keys(nodes[t].load_statuses)
    /\ last.fault # "load_statuses"

\* The ids of the slot-assign commands this step has added to the queue of
\* terrain t: the nodes that the activation loop has put into active_nodes.
InsertedBy(t) ==
    {node_updates'[t][i].node_id :
        i \in {j \in 1..Len(node_updates'[t]) :
                  j > Len(node_updates[t]) /\ node_updates'[t][j].kind = "assign"}}

\* C13: after a call of update_nodes, activated_nodes is the set of ids the
\* call inserted into active_nodes, all of them cache hits or finished
\* loads, and when the call returned it is all the cache hits and finished
\* loads; an id active since an earlier frame is in it only if the call
\* deactivated it and inserted it again.
C13_ActivatedThisCall ==
    [][UpdateNodesStep =>
          \A t \in terrains :
              /\ tree_update'[t].activated_nodes = InsertedBy(t)
              /\ tree_update'[t].activated_nodes \subseteq Keys(nodes'[t].active_nodes)
              /\ Keys(nodes'[t].active_nodes) \ Active(t) \subseteq
                     tree_update'[t].activated_nodes
              /\ tree_update'[t].activated_nodes \cap Active(t) \subseteq ToDeactivate(t)
              /\ tree_update'[t].activated_nodes \subseteq QueuedBy(t)
              /\ ~panicked' => tree_update'[t].activated_nodes = QueuedBy(t)]_vars

\* C13 witness: update_nodes has returned with activated_nodes empty while a
\* node, activated by an earlier call, is active.
C13_Witness ==
    /\ last.op = "update_nodes"
    /\ ~panicked
    /\ \E t \in terrains :
          /\ tree_update[t].activated_nodes = {}
          /\ Active(t) # {}
          /\ node_updates[t] = << >>

\* In the command queue q every slot-free command precedes every slot-assign
\* command.
FreesBeforeAssigns(q) ==
    \A i, j \in 1..Len(q) : (q[i].kind = "assign" /\ q[j].kind = "free") => j < i

\* C15: a call of update_nodes that deactivates active nodes and queues no
\* more nodes than there are free slots and slots of the deactivated nodes
\* returns with every queued node active, and its slot-free commands precede
\* its slot-assign commands in the QuadtreeUpdate queue.
C15_DeactivateBeforeActivate ==
    [][UpdateNodesStep =>
          \A t \in terrains :
              (/\ ToDeactivate(t) \subseteq Active(t)
               /\ Cardinality(QueuedBy(t)) <= FreeFor(t)) =>
                  /\ ~panicked'
                  /\ QueuedBy(t) \subseteq Keys(nodes'[t].active_nodes)
                  /\ FreesBeforeAssigns(node_updates'[t])]_vars

\* C15 witness: update_nodes has returned from a frame that began with a
\* full atlas; the slot it freed is the slot it assigned to another node.
C15_Witness ==
    /\ last.op = "update_nodes"
    /\ ~panicked
    /\ \E t \in terrains :
          /\ node_atlas[t].available_ids = << >>
          /\ Len(node_updates[t]) = 2
          /\ node_updates[t][1].kind = "free"
          /\ node_updates[t][2].kind = "assign"
          /\ node_updates[t][1].atlas_index = node_updates[t][2].atlas_index
          /\ node_updates[t][1].node_id # node_updates[t][2].node_id

\* C19: both request lists are empty after every call of update_nodes and
\* until the next traversal, and a call that finds them empty requests no
\* load, serves nothing from the cache, frees no slot and changes the
\* collections only by moving finished loads out of loading_nodes into
\* active_nodes.
C19_RequestsDrained ==
    /\ [](\A t \in terrains :
            phase # "update_nodes" =>
                /\ tree_update[t].nodes_to_activate = << >>
                /\ tree_update[t].nodes_to_deactivate = << >>)
    /\ [][UpdateNodesStep =>
            \A t \in terrains :
                /\ tree_update'[t].nodes_to_activate = << >>
                /\ tree_update'[t].nodes_to_deactivate = << >>
                /\ (ToActivate(t) = {} /\ ToDeactivate(t) = {}) =>
                      /\ last'.loads = {}
                      /\ last'.hits = {}
                      /\ LruKeys(nodes'[t].inactive_nodes) = Inactive(t)
                      /\ Keys(nodes'[t].loading_nodes) = Loading(t) \ FinishedIds(nodes[t])
                      /\ Active(t) \subseteq Keys(nodes'[t].active_nodes)
                      /\ Keys(nodes'[t].active_nodes) \subseteq Active(t) \cup FinishedIds(nodes[t])
                      /\ \A i \in 1..Len(node_updates'[t]) :
                            node_updates'[t][i].kind # "free"]_vars

\* C19 witness: update_nodes has returned from a call that found both
\* request lists empty and activated a load that had finished.
C19_Witness ==
    /\ last.op = "update_nodes"
    /\ last.loads = {}
    /\ last.hits = {}
    /\ ~panicked
    /\ \E t \in terrains :
          /\ tree_update[t].activated_nodes # {}
          /\ tree_update[t].nodes_to_activate = << >>
          /\ tree_update[t].nodes_to_deactivate = << >>
          /\ Len(node_updates[t]) = 1
          /\ node_updates[t][1].kind = "assign"

\* C16: in every state, also one reached by requesting again a node that is
\* loading, load_statuses and loading_nodes have the same keys, and the
\* sweep of update_nodes never panics at the removal of the loading node.
C16_StatusIffLoading ==
    /\ \A t \in terrains : Keys(nodes[t].load_statuses) = Loading(t)
    /\ last.fault # "loading_nodes"

\* C16 witness: update_nodes has requested the load of a node that was in
\* loading_nodes already, and the node is loading.
C16_Witness ==
    /\ last.op = "update_nodes"
    /\ \E t \in terrains : \E id \in Loading(t) : <<t, id>> \in last.reloads

\* The load of node id of terrain t is finished, swept by no call yet, and
\* the atlas of the terrain has a free slot.
FinishedLoad(t, id) ==
    /\ t \in terrains
    /\ id \in Loading(t)
    /\ id \in Keys(nodes[t].load_statuses)
    /\ nodes[t].load_statuses[id].finished
    /\ AtlasCanAdd(node_atlas[t])

\* C18: with the frame systems scheduled fairly, in every run in which
\* update_nodes keeps being called and returning, a requested node whose
\* notification was delivered while the atlas has a free slot is eventually
\* in active_nodes, so it does not stay in loading_nodes.
C18_FinishedLoadActivated ==
    \A t \in TerrainIds : \A id \in NodeIds :
        []<>(last.op = "update_nodes" /\ ~panicked) =>
            (FinishedLoad(t, id) ~> (t \in terrains /\ id \in Active(t)))

\* C18 witness: update_nodes has returned having activated a finished load
\* while the load of another node is still unfinished.
C18_Witness ==
    /\ last.op = "update_nodes"
    /\ last.loads = {}
    /\ last.hits = {}
    /\ ~panicked
    /\ \E t \in terrains : \E id \in Active(t) :
          /\ tree_update[t].activated_nodes = {id}
          /\ \E other \in Loading(t) : ~nodes[t].load_statuses[other].finished

\* The <<terrain, id>> pairs whose LoadStatus is finished in the nodes nd.
FinishedIn(nd) == {<<t, id>> \in (DOMAIN nd) \X NodeIds : id \in FinishedIds(nd[t])}

\* The terrains that have the handle h registered.
Holders(h) == {t \in terrains : h \in Keys(nodes[t].handle_mapping)}

\* C20: in every reachable state of a world of several terrains, one
\* notification changes the Nodes of no terrain but the first that has the
\* handle registered; there it removes that mapping only, and at most one
\* node of the world becomes finished.
C20_OneTerrainPerNotification ==
    \A h \in Handles(terrains) :
        LET W == update_load_status(CurrentWorld, <<Created(h)>>, terrains)
        IN /\ Cardinality(FinishedIn(W.nodes) \ FinishedIn(nodes)) <= 1
           /\ Holders(h) = {} => W.nodes = nodes
           /\ Holders(h) # {} =>
                 LET first == Min(Holders(h))
                 IN /\ \A t \in terrains \ {first} : W.nodes[t] = nodes[t]
                    /\ W.nodes[first].handle_mapping =
                           Remove(nodes[first].handle_mapping, h)
                    /\ W.routed = 1

\* C20 witness: both terrains load the node of the same id, and
\* update_load_status has routed one notification of the second terrain's
\* load past the first terrain: the second terrain has lost the mapping of
\* the handle and its node is finished, the first terrain has every handle
\* of its node registered still and its node is unfinished.
C20_Witness ==
    /\ last.op = "update_load_status"
    /\ last.routed = 1
    /\ ~panicked
    /\ terrains = {1, 2}
    /\ \E id \in NodeIds : \E h \in NodeHandles(2, id) :
          /\ id \in Loading(2)
          /\ id \in FinishedIds(nodes[2])
          /\ RegisteredFor(2, id) = NodeHandles(2, id) \ {h}
          /\ RegisteredFor(1, id) = NodeHandles(1, id)
          /\ id \in Loading(1)
          /\ ~nodes[1].load_statuses[id].finished

====
